---- MODULE Spec2Model ----
(***************************************************************************)
(* Model of scalable-sustainability.ipynb.                                 *)
(*                                                                         *)
(* Two cell sequences of the notebook are modelled:                        *)
(*   - the cloud-free composite: stackstac.stack(...).where(x > 0),        *)
(*     then data.median(dim="time");                                       *)
(*   - the GOES animation: sorted(signed items), the time coordinate,      *)
(*     xr.concat of the per-item arrays, the simulated green band, the     *)
(*     normalise / gamma / clamp cell, and animate(i).                     *)
(*                                                                         *)
(* Floating point values are modelled as exact reals: NaN, +-inf, a        *)
(* rational n/d, or the real (n/d)^(1/gamma) kept in symbolic form.        *)
(* Rounding of IEEE doubles is not modelled.                               *)
(***************************************************************************)
EXTENDS Integers, Sequences, FiniteSets, TLC

VARIABLES pc, err, items, data, median,
          signed_items, time, green, rgb, img, label

vars == <<pc, err, items, data, median, signed_items, time, green, rgb, img, label>>

----------------------------------------------------------------------------
(* Bounds of the explored inputs.                                          *)

\* longest time series of the deep, single-pixel input family
MaxSeriesFrames == 5
\* most items of the ragged-footprint input family
MaxRaggedFrames == 2
\* most GOES items of the rendering input family
MaxRenderItems == 2
\* most GOES items of the animation input family
MaxAnimItems == 3
\* item datetimes of the animation input family are 1..MaxTime
MaxTime == 2

----------------------------------------------------------------------------
(* Floating point values.                                                  *)

NaN == [k |-> "nan", n |-> 0, d |-> 1]
Fin(n, d) == [k |-> "fin", n |-> n, d |-> d]
Num(v) == Fin(v, 1)

Abs(i) == IF i < 0 THEN -i ELSE i

RECURSIVE GCD(_, _)
GCD(a, b) == IF b = 0 THEN a ELSE GCD(b, a % b)

\* the rational n/d (d > 0) in lowest terms: one record per real number
Rat(n, d) == LET g == GCD(Abs(n), d) IN Fin(n \div g, d \div g)
PosInf == [k |-> "inf", n |-> 1, d |-> 1]
NegInf == [k |-> "inf", n |-> -1, d |-> 1]
\* the real number (n/d)^(1/gamma), for n/d > 0 and n/d # 1
Root(n, d) == [k |-> "root", n |-> n, d |-> d]

IsNaN(x) == x.k = "nan"

\* x > 0 as numpy evaluates it: False for NaN
GT0(x) ==
    CASE x.k = "nan" -> FALSE
      [] x.k = "inf" -> x.n > 0
      [] x.k = "fin" -> x.n > 0
      [] x.k = "root" -> TRUE

\* x < 1 as numpy evaluates it: False for NaN
LT1(x) ==
    CASE x.k = "nan" -> FALSE
      [] x.k = "inf" -> x.n < 0
      [] x.k = "fin" -> x.n < x.d
      [] x.k = "root" -> x.n < x.d

\* a <= b on finite rationals (denominators are positive)
FinLeq(a, b) == a.n * b.d <= b.n * a.d

\* (a + b) / 2
FinMean(a, b) == Rat(a.n * b.d + b.n * a.d, 2 * a.d * b.d)

----------------------------------------------------------------------------
(* Labelled arrays (xarray.DataArray): dims, the coordinates of each dim,  *)
(* and the values v, keyed by <<t, band, pixel>> or <<band, pixel>>.       *)
(* A pixel stands for one (y, x) position of the grid.                     *)

Range(s) == {s[i] : i \in DOMAIN s}

SeqsOf(S, lo, hi) == UNION {[1..k -> S] : k \in lo..hi}

\* a variable whose cell has not run yet: an array of no dims and no frames
NoArray == [dims |-> <<>>, time |-> <<>>]

----------------------------------------------------------------------------
(* Cloud-free composite: the Sentinel-2 cells.                             *)

\* assets=["B04", "B03", "B02"]
Assets == <<"B04", "B03", "B02">>

\* x.common_name of each asset ("red, green, blue")
CommonName(a) ==
    CASE a = "B04" -> "red"
      [] a = "B03" -> "green"
      [] a = "B02" -> "blue"

\* What stackstac reads of one item at (asset, pixel): the item's sample, or
\* the fill value NaN where the item has no such asset or does not cover the
\* pixel. A sample the asset's own mask flags is read as NaN as well.
ReadSample(item, a, p) ==
    IF a \in DOMAIN item.raster /\ p \in item.footprint
    THEN item.raster[a][p]
    ELSE NaN

\* faulty variant: the grid as the intersection of the footprints, an inner join
StackGridInner(its) ==
    {p \in UNION {its[i].footprint : i \in DOMAIN its} :
        \A i \in DOMAIN its : p \in its[i].footprint}

\* stackstac.stack(signed_items, assets=[...]): the items on one common grid
\* (the union of their footprints), one band per requested asset.
StackGrid(its) == UNION {its[i].footprint : i \in DOMAIN its}

StackstacStack(its) ==
    [dims |-> <<"time", "band", "yx">>,
     time |-> [t \in 1..Len(its) |-> t],
     band |-> Assets,
     yx   |-> StackGrid(its),
     v    |-> [i \in (1..Len(its)) \X Range(Assets) \X StackGrid(its) |->
                 ReadSample(its[i[1]], i[2], i[3])]]

\* faulty variant: .where(lambda x: x >= 0): zero is kept as a value
WhereGE0(arr) ==
    [arr EXCEPT !.v = [i \in DOMAIN arr.v |->
                         IF arr.v[i].k = "fin" /\ arr.v[i].n >= 0
                         THEN arr.v[i] ELSE NaN]]

\* .where(lambda x: x > 0): keep the value where x > 0, NaN elsewhere
WhereGT0(arr) ==
    [arr EXCEPT !.v = [i \in DOMAIN arr.v |->
                         IF GT0(arr.v[i]) THEN arr.v[i] ELSE NaN]]

\* .assign_coords(band=lambda x: x.common_name.rename("band"))
AssetOf(arr, name) == CHOOSE a \in Range(arr.band) : CommonName(a) = name

AssignCommonNames(arr) ==
    LET names == [j \in DOMAIN arr.band |-> CommonName(arr.band[j])]
    IN  [arr EXCEPT
           !.band = names,
           !.v = [i \in (DOMAIN arr.time) \X Range(names) \X arr.yx |->
                    arr.v[<<i[1], AssetOf(arr, i[2]), i[3]>>]]]

\* the pixel series of (band, pixel) across the time steps
Series(arr, b, p) == [t \in DOMAIN arr.time |-> arr.v[<<t, b, p>>]]

DropNaN(s) == SelectSeq(s, LAMBDA x : ~IsNaN(x))

RECURSIVE Insert(_, _)
\* insertion of x into the ascending sequence s
Insert(x, s) ==
    IF s = <<>> THEN <<x>>
    ELSE IF FinLeq(x, Head(s)) THEN <<x>> \o s
    ELSE <<Head(s)>> \o Insert(x, Tail(s))

RECURSIVE Sort(_)
Sort(s) == IF s = <<>> THEN <<>> ELSE Insert(Head(s), Sort(Tail(s)))

\* faulty variant: the lower middle value instead of the mean of the two middle ones
NanMedianLower(s) ==
    LET valid == Sort(DropNaN(s))
        n == Len(valid)
    IN  IF n = 0 THEN NaN ELSE valid[(n + 1) \div 2]

\* faulty variant: the largest valid sample: max(dim="time")
NanMaxOfSeries(s) ==
    LET valid == Sort(DropNaN(s))
    IN  IF valid = <<>> THEN NaN ELSE valid[Len(valid)]

\* faulty variant: an empty series reduces to 0, as a sum would
NanMedianZeroFill(s) ==
    LET valid == Sort(DropNaN(s))
        n == Len(valid)
    IN  IF n = 0 THEN Num(0)
        ELSE IF n % 2 = 1 THEN valid[(n + 1) \div 2]
        ELSE FinMean(valid[n \div 2], valid[n \div 2 + 1])

\* faulty variant: median(skipna=False): one NaN sample makes the result NaN
MedianNoSkip(s) ==
    LET valid == Sort(DropNaN(s))
        n == Len(valid)
    IN  IF n = 0 \/ n < Len(s) THEN NaN
        ELSE IF n % 2 = 1 THEN valid[(n + 1) \div 2]
        ELSE FinMean(valid[n \div 2], valid[n \div 2 + 1])

\* nanmedian of one series: NaN samples are skipped; the middle value of the
\* sorted rest, the mean of the two middle values when their count is even;
\* NaN when nothing is left.
NanMedian(s) ==
    LET valid == Sort(DropNaN(s))
        n == Len(valid)
    IN  IF n = 0 THEN NaN
        ELSE IF n % 2 = 1 THEN valid[(n + 1) \div 2]
        ELSE FinMean(valid[n \div 2], valid[n \div 2 + 1])

\* faulty variant: data.median(dim="band"): the wrong axis is reduced
MedianOverBand(arr) ==
    [dims |-> SelectSeq(arr.dims, LAMBDA dim : dim # "band"),
     time |-> arr.time,
     yx   |-> arr.yx,
     v    |-> [i \in (DOMAIN arr.time) \X arr.yx |->
                 NanMedian([j \in DOMAIN arr.band |-> arr.v[<<i[1], arr.band[j], i[2]>>]])]]

\* data.median(dim="time")
MedianOverTime(arr) ==
    [dims |-> SelectSeq(arr.dims, LAMBDA dim : dim # "time"),
     band |-> arr.band,
     yx   |-> arr.yx,
     v    |-> [i \in Range(arr.band) \X arr.yx |->
                 NanMedian(Series(arr, i[1], i[2]))]]

----------------------------------------------------------------------------
(* Inputs of the composite cells.                                          *)

\* samples of the deep single-pixel family: masked (NaN), zero and four
\* reflectance values
SeriesSamples == {NaN, Num(0), Num(195), Num(200), Num(210), Num(400)}

\* an item that covers pixel 1 with the same sample in every asset
SeriesItem(s) ==
    [footprint |-> {1}, raster |-> [a \in Range(Assets) |-> [p \in {1} |-> s]]]

\* samples, footprints and asset sets of the ragged family
RaggedSamples == {Num(-1), Num(1), Num(2)}
RaggedPixels == {1, 2}
RaggedAssetSets == {{"B04", "B03", "B02"}, {"B04"}, {"B03", "B02"}}

RaggedItem(fp, as, s) ==
    [footprint |-> fp, raster |-> [a \in as |-> [p \in fp |-> s]]]

RaggedItems ==
    {RaggedItem(fp, as, s) : fp \in (SUBSET RaggedPixels) \ {{}},
                             as \in RaggedAssetSets,
                             s \in RaggedSamples}

InitCompose ==
    /\ pc = "items"
    /\ err = "none"
    /\ \/ items \in SeqsOf({SeriesItem(s) : s \in SeriesSamples}, 0, MaxSeriesFrames)
       \/ items \in SeqsOf(RaggedItems, 1, MaxRaggedFrames)
    /\ data = NoArray
    /\ median = NoArray
    /\ signed_items = <<>>
    /\ time = <<>>
    /\ green = NoArray
    /\ rgb = NoArray
    /\ img = NoArray
    /\ label = ""

\* the stackstac.stack(...) cell on a non-empty item list
Stack ==
    /\ pc = "items"
    /\ Len(items) > 0
    /\ data' = AssignCommonNames(WhereGT0(StackstacStack(items)))
    /\ pc' = "stacked"
    /\ UNCHANGED <<err, items, median, signed_items, time, green, rgb, img, label>>

\* stackstac.stack raises ValueError on an empty item list
StackEmpty ==
    /\ pc = "items"
    /\ Len(items) = 0
    /\ err' = "ValueError"
    /\ pc' = "failed"
    /\ UNCHANGED <<items, data, median, signed_items, time, green, rgb, img, label>>

\* median = data.median(dim="time")
Median ==
    /\ pc = "stacked"
    /\ median' = MedianOverTime(data)
    /\ pc' = "composited"
    /\ UNCHANGED <<err, items, data, signed_items, time, green, rgb, img, label>>

NextCompose == Stack \/ StackEmpty \/ Median

SpecCompose == InitCompose /\ [][NextCompose]_vars

----------------------------------------------------------------------------
(* Float arithmetic of the GOES cells.                                     *)

\* a * x for a rational constant a = cn/cd > 0
FScale(cn, cd, x) ==
    IF x.k = "fin" THEN Rat(cn * x.n, cd * x.d) ELSE x

\* x + y on NaN and finite values
FAdd(x, y) ==
    IF x.k = "nan" \/ y.k = "nan" THEN NaN
    ELSE Rat(x.n * y.d + y.n * x.d, x.d * y.d)

\* x / m on NaN and finite values: division by zero gives +-inf, 0/0 gives NaN
FDiv(x, m) ==
    IF x.k = "nan" \/ m.k = "nan" THEN NaN
    ELSE IF m.n = 0
         THEN IF x.n > 0 THEN PosInf ELSE IF x.n < 0 THEN NegInf ELSE NaN
    ELSE IF m.n > 0 THEN Rat(x.n * m.d, x.d * m.n)
    ELSE Rat(-(x.n * m.d), x.d * (-m.n))

\* x ** (1 / gamma), gamma = 2.2: the exponent is positive and no integer, so
\* a negative base gives NaN and both infinities give +inf
FPow(x) ==
    CASE x.k = "nan" -> NaN
      [] x.k = "inf" -> PosInf
      [] x.k = "fin" /\ x.n < 0 -> NaN
      [] x.k = "fin" /\ x.n = 0 -> Num(0)
      [] x.k = "fin" /\ x.n = x.d -> Num(1)
      [] OTHER -> Root(x.n, x.d)

\* the largest of a set of finite values, NaN for the empty set (skipna max)
FMax(S) ==
    IF S = {} THEN NaN
    ELSE CHOOSE m \in S : \A x \in S : FinLeq(x, m)

----------------------------------------------------------------------------
(* Hurricane Florence animation: the GOES cells.                           *)

\* bands = ["C01_2km", "C02_2km", "C03_2km"]
GoesBands == <<"C01_2km", "C02_2km", "C03_2km">>

\* items[0].assets[band].extra_fields["eo:bands"][0]["common_name"]
GoesCommonName(a) ==
    CASE a = "C01_2km" -> "blue"
      [] a = "C02_2km" -> "red"
      [] a = "C03_2km" -> "nir09"

\* planetary_computer.sign(item): the item with its hrefs signed
Sign(item) == [item EXCEPT !.signed = TRUE]

\* sorted(..., key=lambda x: x.datetime): stable, ascending
RECURSIVE InsertByDatetime(_, _)
InsertByDatetime(x, s) ==
    IF s = <<>> THEN <<x>>
    ELSE IF x.datetime.t < Head(s).datetime.t THEN <<x>> \o s
    ELSE <<Head(s)>> \o InsertByDatetime(x, Tail(s))

RECURSIVE SortedByDatetime(_)
SortedByDatetime(s) ==
    IF s = <<>> THEN <<>>
    ELSE InsertByDatetime(s[Len(s)], SortedByDatetime(SubSeq(s, 1, Len(s) - 1)))

\* pd.to_datetime([x.datetime for x in signed_items]).tz_localize(None):
\* the same instants without their time zone
TzLocalizeNone(dt) == dt.t

TimeCoord(its) == [i \in DOMAIN its |-> TzLocalizeNone(its[i].datetime)]

\* xr.concat([open_rasterio(item.assets[band].href) for band in bands],
\*           dim="band").assign_coords(band=common_names) of one item
ItemArray(item) ==
    [dims |-> <<"band", "yx">>,
     band |-> [j \in DOMAIN GoesBands |-> GoesCommonName(GoesBands[j])],
     yx   |-> item.footprint,
     v    |-> [i \in {GoesCommonName(a) : a \in Range(GoesBands)} \X item.footprint |->
                 item.raster[CHOOSE a \in Range(GoesBands) : GoesCommonName(a) = i[1]][i[2]]]]

\* xr.concat(arrays, dim=time): the arrays along the new time dim, their
\* grids joined (join="outer", the default) and the missing positions NaN
ConcatGrid(arrays) == UNION {arrays[i].yx : i \in DOMAIN arrays}

ConcatTime(arrays, tm) ==
    [dims |-> <<"time", "band", "yx">>,
     time |-> tm,
     band |-> arrays[1].band,
     yx   |-> ConcatGrid(arrays),
     v    |-> [i \in (DOMAIN arrays) \X Range(arrays[1].band) \X ConcatGrid(arrays) |->
                 IF i[3] \in arrays[i[1]].yx
                 THEN arrays[i[1]].v[<<i[2], i[3]>>]
                 ELSE NaN]]

\* 0.45 * red + 0.1 * nir09 + 0.45 * blue, labelled band="green"
SimulatedGreen(arr) ==
    [dims |-> <<"time", "yx">>,
     time |-> arr.time,
     yx   |-> arr.yx,
     v    |-> [i \in (DOMAIN arr.time) \X arr.yx |->
                 FAdd(FAdd(FScale(45, 100, arr.v[<<i[1], "red", i[2]>>]),
                           FScale(10, 100, arr.v[<<i[1], "nir09", i[2]>>])),
                      FScale(45, 100, arr.v[<<i[1], "blue", i[2]>>]))]]

\* xr.concat([data, green], dim="band").sel(band=["red", "green", "blue"])
SelectRGB(arr, grn) ==
    [dims |-> <<"time", "band", "yx">>,
     time |-> arr.time,
     band |-> <<"red", "green", "blue">>,
     yx   |-> arr.yx,
     v    |-> [i \in (DOMAIN arr.time) \X {"red", "green", "blue"} \X arr.yx |->
                 IF i[2] = "green" THEN grn.v[<<i[1], i[3]>>] ELSE arr.v[i]]]

\* rgb.max(dim=["band", "y", "x"]) at time step t
FrameMax(arr, t) ==
    FMax({arr.v[i] : i \in {j \in DOMAIN arr.v : j[1] = t /\ ~IsNaN(arr.v[j])}})

\* rgb / rgb.max(dim=["band", "y", "x"])
Normalise(arr) ==
    [arr EXCEPT !.v = [i \in DOMAIN arr.v |-> FDiv(arr.v[i], FrameMax(arr, i[1]))]]

\* rgb ** (1 / gamma)
GammaCorrect(arr) ==
    [arr EXCEPT !.v = [i \in DOMAIN arr.v |-> FPow(arr.v[i])]]

\* faulty variant: .where(lambda x: x > 0, 1): the fill values of the clamps swapped
ClampLowFillsOne(arr) ==
    [arr EXCEPT !.v = [i \in DOMAIN arr.v |->
                         IF GT0(arr.v[i]) THEN arr.v[i] ELSE Num(1)]]

\* .where(lambda x: x > 0, 0)
ClampLow(arr) ==
    [arr EXCEPT !.v = [i \in DOMAIN arr.v |->
                         IF GT0(arr.v[i]) THEN arr.v[i] ELSE Num(0)]]

\* faulty variant: .where(lambda x: x > 1, 1): the comparison inverted
ClampHighInverted(arr) ==
    [arr EXCEPT !.v = [i \in DOMAIN arr.v |->
                         IF ~LT1(arr.v[i]) /\ ~IsNaN(arr.v[i]) /\ arr.v[i] # Num(1)
                         THEN arr.v[i] ELSE Num(1)]]

\* .where(lambda x: x < 1, 1)
ClampHigh(arr) ==
    [arr EXCEPT !.v = [i \in DOMAIN arr.v |->
                         IF LT1(arr.v[i]) THEN arr.v[i] ELSE Num(1)]]

\* rgb[i].transpose("y", "x", "band"): the image of one time step
FrameImage(arr, t) ==
    [dims |-> <<"yx", "band">>,
     v    |-> [i \in arr.yx \X Range(arr.band) |-> arr.v[<<t, i[2], i[1]>>]]]

----------------------------------------------------------------------------
(* Inputs of the GOES cells.                                               *)

GoesItem(t, fp, red, blue, nir) ==
    [datetime |-> [t |-> t, tz |-> "UTC"],
     signed   |-> FALSE,
     footprint |-> fp,
     raster   |-> [a \in Range(GoesBands) |->
                     [p \in fp |->
                        CASE a = "C01_2km" -> Num(blue)
                          [] a = "C02_2km" -> Num(red)
                          [] a = "C03_2km" -> Num(nir)]]]

\* rendering family: raw red and blue values, one of two one-pixel
\* footprints, near-infrared 0
RedVals == {-1, 0, 1, 2}
BlueVals == {-1, 2}
RenderFootprints == {{1}, {2}}
RenderChoices == RedVals \X BlueVals \X RenderFootprints

\* animation family: a datetime and one of two rasters on pixel 1, told
\* apart by their red value
AnimVals == {1, 2}
AnimItems == {GoesItem(t, {1}, s, 2, 0) : t \in 1..MaxTime, s \in AnimVals}

InitGoes ==
    /\ pc = "searched"
    /\ err = "none"
    /\ \/ \E n \in 1..MaxRenderItems : \E ch \in [1..n -> RenderChoices] :
            items = [i \in 1..n |-> GoesItem(i, ch[i][3], ch[i][1], ch[i][2], 0)]
       \/ items \in SeqsOf(AnimItems, 1, MaxAnimItems)
    /\ data = NoArray
    /\ median = NoArray
    /\ signed_items = <<>>
    /\ time = <<>>
    /\ green = NoArray
    /\ rgb = NoArray
    /\ img = NoArray
    /\ label = ""

\* signed_items = sorted([sign(item) for item in items], key=datetime)
SignAndSort ==
    /\ pc = "searched"
    /\ signed_items' = SortedByDatetime([i \in DOMAIN items |-> Sign(items[i])])
    /\ pc' = "sorted"
    /\ UNCHANGED <<err, items, data, median, time, green, rgb, img, label>>

\* faulty variant: the time coordinate taken from items, the unsorted search result
BuildTimeUnsorted ==
    /\ pc = "sorted"
    /\ time' = TimeCoord(items)
    /\ pc' = "timed"
    /\ UNCHANGED <<err, items, data, median, signed_items, green, rgb, img, label>>

\* time = xr.DataArray(pd.to_datetime([...]).tz_localize(None), ...)
BuildTime ==
    /\ pc = "sorted"
    /\ time' = TimeCoord(signed_items)
    /\ pc' = "timed"
    /\ UNCHANGED <<err, items, data, median, signed_items, green, rgb, img, label>>

\* arrays = [... for item in signed_items]; data = xr.concat(arrays, dim=time)
Concat ==
    /\ pc = "timed"
    /\ data' = ConcatTime([i \in DOMAIN signed_items |-> ItemArray(signed_items[i])], time)
    /\ pc' = "concatenated"
    /\ UNCHANGED <<err, items, median, signed_items, time, green, rgb, img, label>>

\* green = (0.45 * red + 0.1 * nir09 + 0.45 * blue).assign_coords(band="green")
Green ==
    /\ pc = "concatenated"
    /\ green' = SimulatedGreen(data)
    /\ pc' = "greened"
    /\ UNCHANGED <<err, items, data, median, signed_items, time, rgb, img, label>>

\* the rendering transform of the gamma cell, applied to the selected bands
RenderTransform(arr) == ClampHigh(ClampLow(GammaCorrect(Normalise(arr))))

\* the gamma cell: select, normalise, gamma-correct, clamp
GammaCell ==
    /\ pc = "greened"
    /\ rgb' = RenderTransform(SelectRGB(data, green))
    /\ pc' = "rendered"
    /\ UNCHANGED <<err, items, data, median, signed_items, time, green, img, label>>

\* pd.Timestamp(rgb.time.data[i]).isoformat()
Isoformat(t) == ToString(t)

\* img = rgb[0].plot.imshow(...); label = ax.text(..., time[0].isoformat())
Plot ==
    /\ pc = "rendered"
    /\ img' = FrameImage(rgb, 1)
    /\ label' = Isoformat(rgb.time[1])
    /\ pc' = "plotted"
    /\ UNCHANGED <<err, items, data, median, signed_items, time, green, rgb>>

\* animate(i) for a frame number of FuncAnimation(frames=len(rgb)); the
\* model counts frames from 1
Animate(i) ==
    /\ pc = "plotted"
    /\ img' = FrameImage(rgb, i)
    /\ label' = Isoformat(rgb.time[i])
    /\ UNCHANGED <<pc, err, items, data, median, signed_items, time, green, rgb>>

NextGoes ==
    \/ SignAndSort
    \/ BuildTime
    \/ Concat
    \/ Green
    \/ GammaCell
    \/ Plot
    \/ \E i \in DOMAIN rgb.time : Animate(i)

SpecGoes == InitGoes /\ [][NextGoes]_vars

----------------------------------------------------------------------------
(* Properties of the composite cells, stated on the items that went in.    *)

\* every (asset, pixel) position of the stacked grid
Positions == Range(Assets) \X (UNION {items[i].footprint : i \in DOMAIN items})

\* item t holds a sample at position pos
Covers(t, pos) == pos[1] \in DOMAIN items[t].raster /\ pos[2] \in items[t].footprint

\* the time steps whose sample at pos is valid: present, not masked, > 0
ValidSteps(pos) ==
    {t \in DOMAIN items :
        /\ Covers(t, pos)
        /\ items[t].raster[pos[1]][pos[2]].k = "fin"
        /\ items[t].raster[pos[1]][pos[2]].n > 0}

\* the (integer) value of a valid sample
ValueAt(t, pos) == items[t].raster[pos[1]][pos[2]].n

\* the k-th smallest valid value at pos, by counting
KthValid(pos, k) ==
    CHOOSE v \in {ValueAt(t, pos) : t \in ValidSteps(pos)} :
        /\ Cardinality({t \in ValidSteps(pos) : ValueAt(t, pos) < v}) < k
        /\ Cardinality({t \in ValidSteps(pos) : ValueAt(t, pos) <= v}) >= k

\* the composite's value at pos
Out(pos) == median.v[<<CommonName(pos[1]), pos[2]>>]

\* the scenario of the specification: [200, 5 (flagged), 210, 195, 400]
ExampleSeries == <<Num(200), NaN, Num(210), Num(195), Num(400)>>

IsExample(pos) ==
    /\ Len(items) = Len(ExampleSeries)
    /\ \A t \in DOMAIN items : Covers(t, pos) /\ items[t].raster[pos[1]][pos[2]] = ExampleSeries[t]

\* the composite at pos is the median of the valid samples there: the middle
\* one of an odd count, the mean of the two middle ones of an even count
IsMedianOfValid(pos) ==
    LET n == Cardinality(ValidSteps(pos))
    IN  /\ n % 2 = 1 => Out(pos) = Num(KthValid(pos, (n + 1) \div 2))
        /\ n % 2 = 0 =>
             /\ Out(pos).k = "fin"
             /\ 2 * Out(pos).n =
                  (KthValid(pos, n \div 2) + KthValid(pos, n \div 2 + 1)) * Out(pos).d

\* C1 as claimed: at every position with a valid sample the composite is the
\* median of the valid samples alone (no-data samples, masked or <= 0, are
\* left out), and the series [200, masked, 210, 195, 400] gives 202.5.
C1_ExampleGives202_5 ==
    pc = "composited" =>
        \A pos \in Positions :
            /\ ValidSteps(pos) # {} => IsMedianOfValid(pos)
            /\ IsExample(pos) => Out(pos) = Fin(405, 2)

\* C1 as amended: at every position with a valid sample the composite is the
\* median of the valid samples alone (no-data samples, masked or <= 0, are
\* left out), the mean of the two middle values when their count is even;
\* the series [200, masked, 210, 195, 400] gives 205, the mean of 200 and 210.
C1_MedianOfValidSamples ==
    pc = "composited" =>
        \A pos \in Positions :
            /\ ValidSteps(pos) # {} => IsMedianOfValid(pos)
            /\ IsExample(pos) => Out(pos) = Num(205)

C1_Witness ==
    /\ pc = "composited"
    /\ IsExample(<<"B04", 1>>)
    /\ Out(<<"B04", 1>>) = Num(205)

\* C2: when more than half of the valid samples of a position share one
\* value v, the composite there is v, whatever the other samples are.
C2_MajorityValueWins ==
    pc = "composited" =>
        \A pos \in Positions : \A t \in ValidSteps(pos) :
            2 * Cardinality({u \in ValidSteps(pos) : ValueAt(u, pos) = ValueAt(t, pos)})
                > Cardinality(ValidSteps(pos))
            => Out(pos) = Num(ValueAt(t, pos))

\* a majority of 200 among the valid samples, an outlier 400 and a no-data sample
C2_Witness ==
    /\ pc = "composited"
    /\ \E pos \in Positions :
        /\ Cardinality(ValidSteps(pos)) >= 3
        /\ Cardinality(ValidSteps(pos)) < Len(items)
        /\ 2 * Cardinality({u \in ValidSteps(pos) : ValueAt(u, pos) = 200})
              > Cardinality(ValidSteps(pos))
        /\ \E u \in ValidSteps(pos) : ValueAt(u, pos) = 400
        /\ Out(pos) = Num(200)

\* C3: a position without any valid sample is no-data (NaN, not zero) in the
\* composite, no error is raised, and the positions that have valid samples
\* still get a value between their smallest and largest valid sample.
C3_AllNoDataPropagates ==
    pc = "composited" =>
        /\ err = "none"
        /\ \A pos \in Positions :
            IF ValidSteps(pos) = {}
            THEN IsNaN(Out(pos)) /\ Out(pos) # Num(0)
            ELSE /\ Out(pos).k = "fin"
                 /\ \E t \in ValidSteps(pos) : FinLeq(Num(ValueAt(t, pos)), Out(pos))
                 /\ \E t \in ValidSteps(pos) : FinLeq(Out(pos), Num(ValueAt(t, pos)))

C3_Witness ==
    /\ pc = "composited"
    /\ err = "none"
    /\ \E pos \in Positions : ValidSteps(pos) = {} /\ IsNaN(Out(pos))
    /\ \E pos \in Positions : ValidSteps(pos) # {} /\ Out(pos).k = "fin"

\* C4: when every position has at least one valid sample, no position of the
\* composite is no-data.
C4_NoNoDataWhenCovered ==
    pc = "composited" /\ (\A pos \in Positions : ValidSteps(pos) # {}) =>
        \A pos \in Positions : ~IsNaN(Out(pos))

\* every position is covered, and a position also holds a no-data sample
C4_Witness ==
    /\ pc = "composited"
    /\ \A pos \in Positions : ValidSteps(pos) # {} /\ ~IsNaN(Out(pos))
    /\ \E pos \in Positions : ValidSteps(pos) # DOMAIN items

\* the sample of the single frame at pos as it is read
FrameSample(pos) == IF Covers(1, pos) THEN items[1].raster[pos[1]][pos[2]] ELSE NaN

\* C5 as claimed: the composite of a single frame equals that frame at every
\* position.
C5_SingleFrameUnchanged ==
    pc = "composited" /\ Len(items) = 1 =>
        \A pos \in Positions : Out(pos) = FrameSample(pos)

\* C5 as amended: the composite of a single frame has no time axis and equals
\* that frame wherever its sample is > 0; where the sample is masked or <= 0
\* the composite is no-data.
C5_SingleFrameMasked ==
    pc = "composited" /\ Len(items) = 1 =>
        /\ \A j \in DOMAIN median.dims : median.dims[j] # "time"
        /\ \A pos \in Positions :
            Out(pos) = IF GT0(FrameSample(pos)) THEN FrameSample(pos) ELSE NaN

C5_Witness ==
    /\ pc = "composited"
    /\ Len(items) = 1
    /\ FrameSample(<<"B04", 1>>) = Num(200)
    /\ Out(<<"B04", 1>>) = Num(200)

\* C6: the composite has the bands and the grid of the stack and no time
\* axis, for any number of frames and of no-data samples.
C6_ShapePreserved ==
    pc = "composited" =>
        /\ median.dims = <<"band", "yx">>
        /\ median.band = data.band
        /\ median.yx = data.yx
        /\ DOMAIN median.v = Range(data.band) \X data.yx
        /\ Range(median.band) = {CommonName(a) : a \in Range(Assets)}
        /\ median.yx = UNION {items[i].footprint : i \in DOMAIN items}

\* several frames, one of them with a no-data sample
C6_Witness ==
    /\ pc = "composited"
    /\ Len(items) >= 2
    /\ \E pos \in Positions : ValidSteps(pos) # DOMAIN items
    /\ DOMAIN median.v = Range(data.band) \X data.yx

\* the frames do not all share one footprint and one asset set
Mismatch ==
    \E i, j \in DOMAIN items :
        \/ items[i].footprint # items[j].footprint
        \/ DOMAIN items[i].raster # DOMAIN items[j].raster

----------------------------------------------------------------------------
(* Properties of the GOES cells.                                           *)

\* gamma = 2.2 = GammaNum / GammaDen
GammaNum == 11
GammaDen == 5

RECURSIVE IPow(_, _)
IPow(b, e) == IF e = 0 THEN 1 ELSE b * IPow(b, e - 1)

\* x <= y on the reals the model represents (false when either is NaN);
\* Root(n, d) is (n/d)^(GammaDen/GammaNum)
RealLeq(x, y) ==
    CASE x.k = "nan" \/ y.k = "nan" -> FALSE
      [] x.k = "inf" -> x.n < 0 \/ (y.k = "inf" /\ y.n > 0)
      [] y.k = "inf" -> y.n > 0
      [] x.k = "fin" /\ y.k = "fin" -> FinLeq(x, y)
      [] x.k = "root" /\ y.k = "root" -> FinLeq(x, y)
      [] x.k = "fin" /\ y.k = "root" ->
            \/ x.n <= 0
            \/ x.n = x.d /\ y.n >= y.d
            \/ x.n # x.d /\ IPow(x.n, GammaNum) * IPow(y.d, GammaDen)
                              <= IPow(y.n, GammaDen) * IPow(x.d, GammaNum)
      [] x.k = "root" /\ y.k = "fin" ->
            /\ y.n > 0
            /\ \/ y.n = y.d /\ x.n <= x.d
               \/ y.n # y.d /\ IPow(x.n, GammaDen) * IPow(y.d, GammaNum)
                                 <= IPow(y.n, GammaNum) * IPow(x.d, GammaDen)

\* the input of the rendering transform: the selected bands before the
\* gamma cell reassigns rgb
RenderInput == SelectRGB(data, green)

InUnitInterval(x) == RealLeq(Num(0), x) /\ RealLeq(x, Num(1))

\* C8: every value the rendering transform produces lies in [0, 1], whatever
\* the input pixel: negative, zero, beyond the maximum, or no-data.
C8_OutputInUnitInterval ==
    pc \in {"rendered", "plotted"} =>
        \A i \in DOMAIN rgb.v : InUnitInterval(rgb.v[i])

\* a rendered stack whose input held a no-data pixel, a negative one, a zero
\* and one that normalises to more than 1
C8_Witness ==
    /\ pc = "rendered"
    /\ \E i \in DOMAIN rgb.v : IsNaN(RenderInput.v[i])
    /\ \E i \in DOMAIN rgb.v : RenderInput.v[i].k = "fin" /\ RenderInput.v[i].n < 0
    /\ \E i \in DOMAIN rgb.v : RenderInput.v[i] = Num(0)
    /\ \E i \in DOMAIN rgb.v :
          LET q == Normalise(RenderInput).v[i]
          IN  ~IsNaN(q) /\ ~RealLeq(q, Num(1))
    /\ \A i \in DOMAIN rgb.v : InUnitInterval(rgb.v[i])

\* the transform is monotonic on the inputs of frame t
MonotonicInFrame(t) ==
    \A i, j \in {m \in DOMAIN rgb.v : m[1] = t} :
        RealLeq(RenderInput.v[i], RenderInput.v[j]) => RealLeq(rgb.v[i], rgb.v[j])

\* C9 as claimed: input 0 gives exactly 0, input 1 gives exactly 1, and in
\* every frame a <= b implies output(a) <= output(b).
C9_ZeroOneMonotonic ==
    pc \in {"rendered", "plotted"} =>
        /\ \A i \in DOMAIN rgb.v :
            /\ RenderInput.v[i] = Num(0) => rgb.v[i] = Num(0)
            /\ RenderInput.v[i] = Num(1) => rgb.v[i] = Num(1)
        /\ \A t \in DOMAIN rgb.time : MonotonicInFrame(t)

\* C9 as amended: input 0 gives exactly 0; the input that equals the frame's
\* maximum, when that maximum is positive, gives exactly 1 (so input 1 gives 1
\* in a frame whose maximum is 1); and in every frame whose maximum is not 0,
\* a <= b implies output(a) <= output(b).
C9_ZeroMaxMonotonic ==
    pc \in {"rendered", "plotted"} =>
        /\ \A i \in DOMAIN rgb.v :
            /\ RenderInput.v[i] = Num(0) => rgb.v[i] = Num(0)
            /\ GT0(RenderInput.v[i]) /\ RenderInput.v[i] = FrameMax(RenderInput, i[1])
                 => rgb.v[i] = Num(1)
        /\ \A t \in DOMAIN rgb.time :
            FrameMax(RenderInput, t) # Num(0) => MonotonicInFrame(t)

\* a frame with inputs 0 < 1 < 2 = max: 0 gives 0, 2 gives 1, 1 lies between
C9_Witness ==
    /\ pc = "rendered"
    /\ \E i, j, m \in DOMAIN rgb.v :
        /\ i[1] = j[1] /\ j[1] = m[1]
        /\ RenderInput.v[i] = Num(0) /\ rgb.v[i] = Num(0)
        /\ RenderInput.v[j] = Num(2) /\ rgb.v[j] = Num(1)
        /\ RenderInput.v[m].k = "fin" /\ rgb.v[m].k = "root"
        /\ RealLeq(rgb.v[i], rgb.v[m]) /\ RealLeq(rgb.v[m], rgb.v[j])

\* the image the cells produce of one item alone, on the grid of the stack
ItemImage(item) ==
    LET grid == UNION {items[i].footprint : i \in DOMAIN items}
        one == ItemArray(item)
        arr == [dims |-> <<"time", "band", "yx">>,
                time |-> <<TzLocalizeNone(item.datetime)>>,
                band |-> one.band,
                yx   |-> grid,
                v    |-> [i \in {1} \X Range(one.band) \X grid |->
                            IF i[3] \in item.footprint
                            THEN one.v[<<i[2], i[3]>>] ELSE NaN]]
    IN  FrameImage(RenderTransform(SelectRGB(arr, SimulatedGreen(arr))), 1)

\* C10: the frames are in non-decreasing datetime order, frame i and time
\* coordinate i come from the same sorted item, and after the plot cell and
\* any animate(i) calls the label shows the datetime of the item whose rasters
\* form the displayed image.
C10_LabelMatchesFrame ==
    pc = "plotted" =>
        /\ \A i, j \in DOMAIN rgb.time : i <= j => rgb.time[i] <= rgb.time[j]
        /\ Len(rgb.time) = Len(items)
        /\ \A i \in DOMAIN rgb.time :
            /\ rgb.time[i] = TzLocalizeNone(signed_items[i].datetime)
            /\ FrameImage(rgb, i) = ItemImage(signed_items[i])
        /\ \E j \in DOMAIN items :
            /\ label = Isoformat(TzLocalizeNone(items[j].datetime))
            /\ img = ItemImage(items[j])

\* the search returned the items out of order, their images differ, and an
\* animate call has moved the display off the first frame
C10_Witness ==
    /\ pc = "plotted"
    /\ \E i, j \in DOMAIN items :
        i < j /\ items[i].datetime.t > items[j].datetime.t
    /\ \E i, j \in DOMAIN items : ItemImage(items[i]) # ItemImage(items[j])
    /\ label # Isoformat(rgb.time[1])
    /\ \E j \in DOMAIN items :
        /\ label = Isoformat(TzLocalizeNone(items[j].datetime))
        /\ img = ItemImage(items[j])

====
